---- MODULE Spec2Model ----
(***************************************************************************)
(* Layer registry of app.py: the in-memory dict `layers`, the archive      *)
(* files under uploads/, the order file uploads/layer_order.json, and the  *)
(* request handlers upload_shapefiles, delete_layer, get_layers and        *)
(* set_order, with the module-level startup code.                          *)
(*                                                                         *)
(* Spec runs the startup code and then the handlers one request at a time; *)
(* SpecList runs get_layers on every pair of a Registry and an order file; *)
(* SpecConc runs delete_layer, get_layers and set_order on threads whose   *)
(* accesses to `layers` and to the order file interleave.                  *)
(*                                                                         *)
(* Strings are sequences of one-character strings, so that lower(),        *)
(* endswith(), splitext(), basename(), sorted() and the JSON text of the   *)
(* order file are computed character by character as Python computes them. *)
(***************************************************************************)
EXTENDS Integers, Sequences, FiniteSets, TLC

(***************************************************************************)
(* Bounds of the model.                                                    *)
(***************************************************************************)
\* largest number of files in one upload request
MaxBatch == 2
\* largest number of entries in the list of a set_order request
MaxReq == 2
\* number of distinct geometries a valid archive can hold
MaxGeo == 1
\* longest list of names in the order file found at process start
MaxInitLen == 2
\* most layers, and longest persisted list, a List request is tried on
MaxPresent == 3
MaxSavedLen == 3
\* concurrent request threads, and requests each of them serves
NThreads == 2
MaxServed == 1

(***************************************************************************)
(* Characters and Python's string operations.                              *)
(***************************************************************************)
NL == "\n"
QUOTE == "\""

Chars ==
    { NL, " ", QUOTE, ",", ".", "/", "7", "A", "B", "I", "L", "P", "T", "Z",
      "[", "]", "_", "a", "b", "c", "d", "i", "k", "l", "n", "o", "p", "s",
      "t", "u", "x", "z", "{", "}" }

\* the code points of the characters the model uses
CodePoints ==
    [c \in Chars |->
        CASE c = NL -> 10 [] c = " " -> 32 [] c = QUOTE -> 34 [] c = "," -> 44
          [] c = "." -> 46 [] c = "/" -> 47 [] c = "7" -> 55
          [] c = "A" -> 65 [] c = "B" -> 66 [] c = "I" -> 73 [] c = "L" -> 76
          [] c = "P" -> 80 [] c = "T" -> 84 [] c = "Z" -> 90
          [] c = "[" -> 91 [] c = "]" -> 93 [] c = "_" -> 95
          [] c = "a" -> 97 [] c = "b" -> 98 [] c = "c" -> 99 [] c = "d" -> 100
          [] c = "i" -> 105 [] c = "k" -> 107 [] c = "l" -> 108 [] c = "n" -> 110
          [] c = "o" -> 111 [] c = "p" -> 112 [] c = "s" -> 115 [] c = "t" -> 116
          [] c = "u" -> 117 [] c = "x" -> 120 [] c = "z" -> 122
          [] c = "{" -> 123 [] c = "}" -> 125]

\* ord(c)
Ord(c) == CodePoints[c]

\* chr(n)
Chr(n) == CHOOSE c \in Chars : Ord(c) = n

\* str.lower() of each character: A-Z map to a-z
LowerChars ==
    [c \in Chars |-> IF Ord(c) >= 65 /\ Ord(c) <= 90 THEN Chr(Ord(c) + 32) ELSE c]

LowerChar(c) == LowerChars[c]

\* str.lower()
Lower(s) == [i \in 1..Len(s) |-> LowerChar(s[i])]

\* str.endswith(suffix)
EndsWith(s, suffix) ==
    /\ Len(s) >= Len(suffix)
    /\ SubSeq(s, Len(s) - Len(suffix) + 1, Len(s)) = suffix

\* a < b for Python strings: code point order, a proper prefix is smaller
RECURSIVE StrLess(_, _)
StrLess(a, b) ==
    IF b = <<>> THEN FALSE
    ELSE IF a = <<>> THEN TRUE
    ELSE IF Ord(a[1]) # Ord(b[1]) THEN Ord(a[1]) < Ord(b[1])
    ELSE StrLess(Tail(a), Tail(b))

\* index of the last occurrence of character c in s, 0 if there is none
RECURSIVE LastIndexFrom(_, _, _)
LastIndexFrom(s, c, i) ==
    IF i = 0 \/ s[i] = c THEN i ELSE LastIndexFrom(s, c, i - 1)

LastIndex(s, c) == LastIndexFrom(s, c, Len(s))

\* os.path.join(a, b) on POSIX
PathJoin(a, b) ==
    IF b # <<>> /\ b[1] = "/" THEN b
    ELSE IF a = <<>> \/ a[Len(a)] = "/" THEN a \o b
    ELSE a \o <<"/">> \o b

\* os.path.basename(p)
BaseName(p) == SubSeq(p, LastIndex(p, "/") + 1, Len(p))

\* os.path.splitext(p)[0]: the extension starts at the last dot of the last
\* path component, leading dots of that component not counting
SplitExtRoot(p) ==
    LET sep == LastIndex(p, "/")
        dot == LastIndex(p, ".")
    IN  IF dot > sep /\ \E k \in (sep+1)..(dot-1) : p[k] # "."
        THEN SubSeq(p, 1, dot - 1)
        ELSE p

\* the elements of a sequence
Range(s) == { s[i] : i \in 1..Len(s) }

\* sequences over S of length at most n
SeqsUpTo(S, n) == UNION { [1..k -> S] : k \in 0..n }

\* x in list
In(x, list) == \E i \in 1..Len(list) : list[i] = x

\* sorted(list) for a list of strings
RECURSIVE Sorted(_)
Sorted(list) ==
    IF list = <<>> THEN <<>>
    ELSE LET i == CHOOSE i \in 1..Len(list) :
                      \A j \in 1..Len(list) : ~ StrLess(list[j], list[i])
             rest == [k \in 1..(Len(list) - 1) |->
                          IF k < i THEN list[k] ELSE list[k + 1]]
         IN  <<list[i]>> \o Sorted(rest)

(***************************************************************************)
(* The JSON text of the order file.                                        *)
(***************************************************************************)
\* json.dump(order_list, fh, indent=2): the text written for a list of names
RECURSIVE JsonItems(_, _)
JsonItems(list, i) ==
    IF i > Len(list) THEN <<>>
    ELSE (IF i > 1 THEN <<",">> ELSE <<>>)
         \o <<NL, " ", " ", QUOTE>> \o list[i] \o <<QUOTE>>
         \o JsonItems(list, i + 1)

JsonDump(list) ==
    IF list = <<>> THEN <<"[", "]">>
    ELSE <<"[">> \o JsonItems(list, 1) \o <<NL, "]">>

\* first position at or after i that holds no JSON whitespace
RECURSIVE SkipWs(_, _)
SkipWs(b, i) ==
    IF i <= Len(b) /\ b[i] \in {" ", NL} THEN SkipWs(b, i + 1) ELSE i

JsonFail == [ok |-> FALSE, list |-> <<>>]

\* index of the first occurrence of character c in b at or after i, 0 if none
RECURSIVE FirstIndexFrom(_, _, _)
FirstIndexFrom(b, c, i) ==
    IF i > Len(b) THEN 0 ELSE IF b[i] = c THEN i ELSE FirstIndexFrom(b, c, i + 1)

\* the elements of a JSON array of strings from position i (after "[" or ",")
RECURSIVE JsonElems(_, _, _)
JsonElems(b, i, acc) ==
    LET s == SkipWs(b, i)
        e == FirstIndexFrom(b, QUOTE, s + 1)
    IN  IF s > Len(b) \/ b[s] # QUOTE THEN JsonFail
        ELSE IF e = 0 THEN JsonFail
        ELSE LET val == SubSeq(b, s + 1, e - 1)
                 n == SkipWs(b, e + 1)
             IN  IF n > Len(b) THEN JsonFail
                 ELSE IF b[n] = "," THEN JsonElems(b, n + 1, Append(acc, val))
                 ELSE IF b[n] = "]" /\ SkipWs(b, n + 1) > Len(b)
                      THEN [ok |-> TRUE, list |-> Append(acc, val)]
                 ELSE JsonFail

\* json.load(fh) followed by isinstance(data, list): ok with the list when the
\* text is a JSON array of strings; not ok for every other text (text that is
\* no JSON raises, JSON that is no array fails the isinstance test)
JsonLoadList(b) ==
    LET s == SkipWs(b, 1)
    IN  IF s > Len(b) \/ b[s] # "[" THEN JsonFail
        ELSE LET n == SkipWs(b, s + 1)
             IN  IF n <= Len(b) /\ b[n] = "]"
                 THEN IF SkipWs(b, n + 1) > Len(b)
                      THEN [ok |-> TRUE, list |-> <<>>]
                      ELSE JsonFail
                 ELSE JsonElems(b, s + 1, <<>>)

(***************************************************************************)
(* Program constants.                                                      *)
(***************************************************************************)
UPLOAD_FOLDER == <<"u", "p", "l", "o", "a", "d", "s">>

Taluka == <<"T", "a", "l", "u", "k", "a">>
P_Location == <<"P", "_", "L", "o", "c", "a", "t", "i", "o", "n">>

DEFAULT_LAYER_ORDER == <<P_Location, Taluka>>

\* the keys of GITHUB_SHAPEFILES in the order the dict iterates them
GITHUB_SHAPEFILES == <<Taluka, P_Location>>

DotZip == <<".", "z", "i", "p">>

(***************************************************************************)
(* Inputs: uploaded files, layer names, set_order payloads.                *)
(***************************************************************************)
A == <<"A">>
B == <<"B">>
\* a name no archive of the model carries
Z == <<"Z">>

A_zip == <<"A", ".", "z", "i", "p">>
B_ZIP == <<"B", ".", "Z", "I", "P">>
B_txt == <<"B", ".", "t", "x", "t">>

FileNames == { A_zip, B_ZIP, B_txt }

\* What an archive file holds: a zip with a shapefile that parses and
\* reprojects ("shp", with its geometry), a zip without any .shp member
\* ("noshp"), or bytes that zipfile or geopandas cannot read ("corrupt").
ValidContents == { [kind |-> "shp", geo |-> g] : g \in 1..MaxGeo }
Contents ==
    ValidContents \cup { [kind |-> "noshp", geo |-> 0], [kind |-> "corrupt", geo |-> 0] }

\* one part of a multipart upload: request.files.getlist("files")[i]
UploadedFiles ==
    { [filename |-> A_zip, content |-> c] : c \in Contents }
      \cup { [filename |-> B_ZIP, content |-> c] : c \in ValidContents }
      \cup { [filename |-> B_txt, content |-> [kind |-> "corrupt", geo |-> 0]] }

\* the files of one upload request; an empty list stands for a request
\* without a "files" part
Batches == SeqsUpTo(UploadedFiles, MaxBatch)

Names == { Taluka, P_Location, A, B }

\* the layer names a delete request may carry
DeleteNames == Names \cup { Z }

\* an entry of the JSON list of a set_order request: a string or something else
OrderEntries ==
    { [isStr |-> TRUE, val |-> n] : n \in { A, Taluka, Z } }
      \cup { [isStr |-> FALSE, val |-> <<"7">>] }

(***************************************************************************)
(* State.                                                                  *)
(***************************************************************************)
VARIABLES
    phase,       \* "boot" before the module-level code has run; then "idle",
                 \* and "done" when startup or a request has just run
    layers,      \* the dict `layers`: its items in iteration (insertion) order
    files,       \* the archive files under uploads/: path -> content
    order_file,  \* uploads/layer_order.json: whether it exists, and its text
    req,         \* the request the last handler ran for
    resp,        \* the response it returned
                 \* (after startup req holds what the downloads gave)
    live,        \* history: names ingested successfully and not deleted since
    threads,     \* concurrent requests: each thread's position and locals
    persisted    \* history: the lists the order file was given to hold

vars == << phase, layers, files, order_file, req, resp, live, threads, persisted >>

(***************************************************************************)
(* The dict `layers`.                                                      *)
(***************************************************************************)
\* list(layers.keys())
Keys(d) == [i \in 1..Len(d) |-> d[i].name]

\* name in layers
HasKey(d, name) == \E i \in 1..Len(d) : d[i].name = name

\* layers[name]
Get(d, name) == d[CHOOSE i \in 1..Len(d) : d[i].name = name]

\* layers[name] = value: an existing key keeps its place, a new one goes last
DictSet(d, item) ==
    IF HasKey(d, item.name)
    THEN [i \in 1..Len(d) |-> IF d[i].name = item.name THEN item ELSE d[i]]
    ELSE Append(d, item)

\* layers.pop(name)
DictPop(d, name) == SelectSeq(d, LAMBDA it : it.name # name)

(***************************************************************************)
(* load_saved_order and save_order.                                        *)
(***************************************************************************)
NoFile == [exists |-> FALSE, text |-> <<>>]

\* load_saved_order()
load_saved_order_EmptyOnError(f) ==
    LET data == JsonLoadList(f.text)
    IN  IF f.exists /\ data.ok THEN data.list ELSE <<>>

load_saved_order(f) ==
    LET data == JsonLoadList(f.text)
    IN  IF f.exists /\ data.ok THEN data.list ELSE DEFAULT_LAYER_ORDER

\* open(ORDER_FILE, "wt"): the file is created or truncated
OpenTruncate(f) == [exists |-> TRUE, text |-> <<>>]

\* the buffered text reaches the file when the with block closes it: one
\* write at offset 0, which leaves in place whatever lies beyond its end
WriteAtStart(f, text) ==
    [exists |-> TRUE, text |-> text \o SubSeq(f.text, Len(text) + 1, Len(f.text))]

\* what the file system does with a write
IOOutcomes == { "ok", "fail" }

\* save_order(order_list): the file afterwards and the value returned
save_order(f, order_list, io) ==
    IF io = "ok"
    THEN [file |-> WriteAtStart(OpenTruncate(f), JsonDump(order_list)), ok |-> TRUE]
    ELSE [file |-> f, ok |-> FALSE]

(***************************************************************************)
(* load_zip_into_layers.                                                   *)
(***************************************************************************)
\* whether load_zip_into_layers(zip_path) reaches the assignment to layers:
\* ZipFile() raises on a missing or unreadable file, a tree without a .shp
\* member returns False, read_file/to_crs raise on data they cannot handle
Ingestible_WithoutShpCheck(fs, zip_path) ==
    /\ zip_path \in DOMAIN fs
    /\ fs[zip_path].kind # "corrupt"

Ingestible(fs, zip_path) ==
    /\ zip_path \in DOMAIN fs
    /\ fs[zip_path].kind = "shp"

\* layer_name = os.path.splitext(os.path.basename(zip_path))[0]
LayerNameOf(zip_path) == SplitExtRoot(BaseName(zip_path))

\* load_zip_into_layers(zip_path): the dict afterwards and the value returned
load_zip_into_layers(d, fs, zip_path) ==
    IF Ingestible(fs, zip_path)
    THEN [layers |-> DictSet(d, [name |-> LayerNameOf(zip_path),
                                 geojson |-> fs[zip_path].geo,
                                 zip_path |-> zip_path]),
          ok |-> TRUE]
    ELSE [layers |-> d, ok |-> FALSE]

(***************************************************************************)
(* Requests and responses.                                                 *)
(***************************************************************************)
NotAList == [isList |-> FALSE, items |-> <<>>]

\* a request: the handler, session.get("admin"), the handler's input, and
\* what the file system does with the write of the order file it attempts
Request(op, admin, batch, name, payload) ==
    [op |-> op, admin |-> admin, batch |-> batch, name |-> name, payload |-> payload,
     io |-> "ok"]

NoRequest == Request("none", FALSE, <<>>, <<>>, NotAList)

\* jsonify(...) with its status code; the fields a response lacks are empty
Response(kind, code, msg, uploaded, failed, order, lyrs) ==
    [kind |-> kind, code |-> code, msg |-> msg,
     uploaded |-> uploaded, failed |-> failed, order |-> order, layers |-> lyrs,
     bounds |-> <<>>]

NoResponse == Response("none", 0, "", <<>>, <<>>, <<>>, <<>>)

ErrorResponse(code, msg) == Response("error", code, msg, <<>>, <<>>, <<>>, <<>>)

\* the worker threads of the server, each serving one request at a time
Threads == 1..NThreads

\* a thread between requests that has served n of them; its locals are empty
IdleThread(n) ==
    [pc |-> "idle", op |-> "none", name |-> <<>>, zip_path |-> <<>>,
     loaded |-> FALSE, saved_order |-> <<>>, order |-> <<>>,
     batch |-> <<>>, i |-> 0, geo |-> 0, uploaded |-> <<>>, failed |-> <<>>,
     served |-> n, resp |-> NoResponse]

(***************************************************************************)
(* upload_shapefiles.                                                      *)
(***************************************************************************)
\* file.save(zip_path)
SaveFile(fs, zip_path, content) ==
    [p \in DOMAIN fs \cup {zip_path} |-> IF p = zip_path THEN content ELSE fs[p]]

\* the loop over the files of the request, from file i on
RECURSIVE UploadLoop(_, _, _)
UploadLoop_StopsAtFailure(st, batch, i) ==
    IF i > Len(batch) THEN st
    ELSE LET file == batch[i]
         IN  IF ~ EndsWith(Lower(file.filename), DotZip)
             THEN [st EXCEPT !.failed = Append(@, file.filename)]
             ELSE LET zip_path == PathJoin(UPLOAD_FOLDER, file.filename)
                      saved == SaveFile(st.files, zip_path, file.content)
                      r == load_zip_into_layers(st.layers, saved, zip_path)
                  IN  IF r.ok
                      THEN UploadLoop([st EXCEPT !.files = saved,
                                                 !.layers = r.layers,
                                                 !.uploaded = Append(@, SplitExtRoot(file.filename))],
                                      batch, i + 1)
                      ELSE [st EXCEPT !.files = saved,
                                      !.failed = Append(@, file.filename)]

UploadLoop(st, batch, i) ==
    IF i > Len(batch) THEN st
    ELSE LET file == batch[i]
         IN  IF ~ EndsWith(Lower(file.filename), DotZip)
             THEN UploadLoop([st EXCEPT !.failed = Append(@, file.filename)],
                             batch, i + 1)
             ELSE LET zip_path == PathJoin(UPLOAD_FOLDER, file.filename)
                      saved == SaveFile(st.files, zip_path, file.content)
                      r == load_zip_into_layers(st.layers, saved, zip_path)
                  IN  IF r.ok
                      THEN UploadLoop([st EXCEPT !.files = saved,
                                                 !.layers = r.layers,
                                                 !.uploaded = Append(@, SplitExtRoot(file.filename))],
                                      batch, i + 1)
                      ELSE UploadLoop([st EXCEPT !.files = saved,
                                                 !.failed = Append(@, file.filename)],
                                      batch, i + 1)

\* for name in keys: if name not in order: order.append(name)
RECURSIVE AppendMissing(_, _, _)
AppendMissing_WithoutCheck(order, keys, i) ==
    IF i > Len(keys) THEN order
    ELSE AppendMissing(Append(order, keys[i]), keys, i + 1)

AppendMissing_DropsAbsent(order, keys, i) ==
    IF i > Len(keys) THEN SelectSeq(order, LAMBDA n : In(n, keys))
    ELSE AppendMissing(IF In(keys[i], order) THEN order ELSE Append(order, keys[i]),
                       keys, i + 1)

AppendMissing_Prepends(order, keys, i) ==
    IF i > Len(keys) THEN order
    ELSE AppendMissing(IF In(keys[i], order) THEN order ELSE <<keys[i]>> \o order,
                       keys, i + 1)

AppendMissing(order, keys, i) ==
    IF i > Len(keys) THEN order
    ELSE AppendMissing(IF In(keys[i], order) THEN order ELSE Append(order, keys[i]),
                       keys, i + 1)

\* whether a file of a batch is one that ingests, by its own name and content
Ingests(file) ==
    /\ EndsWith(Lower(file.filename), DotZip)
    /\ file.content \in ValidContents

\* the names a batch ingests successfully, by the files' own content
IngestedNames(batch) ==
    { SplitExtRoot(batch[i].filename) : i \in { j \in 1..Len(batch) : Ingests(batch[j]) } }

upload_shapefiles(admin, batch, io) ==
    /\ phase = "idle"
    /\ phase' = "done"
    /\ req' = [Request("upload", admin, batch, <<>>, NotAList) EXCEPT !.io = io]
    /\ live' = IF admin THEN live \cup IngestedNames(batch) ELSE live
    /\ UNCHANGED << threads, persisted >>
    /\ IF ~ admin
       THEN /\ resp' = ErrorResponse(403, "Only admin can upload!")
            /\ UNCHANGED << layers, files, order_file >>
       ELSE IF batch = <<>>
       THEN /\ resp' = ErrorResponse(400, "No files received!")
            /\ UNCHANGED << layers, files, order_file >>
       ELSE LET st == UploadLoop([layers |-> layers, files |-> files,
                                  uploaded |-> <<>>, failed |-> <<>>], batch, 1)
                order == AppendMissing(load_saved_order(order_file), Keys(st.layers), 1)
            IN  /\ layers' = st.layers
                /\ files' = st.files
                /\ order_file' = save_order(order_file, order, io).file
                /\ resp' = Response("upload", 200, "", st.uploaded, st.failed, <<>>, <<>>)

(***************************************************************************)
(* delete_layer.                                                           *)
(***************************************************************************)
\* os.remove(zip_path) when os.path.exists(zip_path)
RemoveFile(fs, zip_path) == [p \in DOMAIN fs \ {zip_path} |-> fs[p]]

\* order = [n for n in order if n != layer_name]
Without_FirstOnly(order, layer_name) ==
    LET i == CHOOSE i \in 1..Len(order) :
                 order[i] = layer_name /\ \A j \in 1..(i-1) : order[j] # layer_name
    IN  IF In(layer_name, order)
        THEN SubSeq(order, 1, i - 1) \o SubSeq(order, i + 1, Len(order))
        ELSE order

Without(order, layer_name) == SelectSeq(order, LAMBDA n : n # layer_name)

delete_layer_CleansOrderFirst(admin, layer_name, io) ==
    /\ phase = "idle"
    /\ phase' = "done"
    /\ req' = [Request("delete", admin, <<>>, layer_name, NotAList) EXCEPT !.io = io]
    /\ live' = IF admin THEN live \ {layer_name} ELSE live
    /\ UNCHANGED << threads, persisted >>
    /\ IF ~ admin
       THEN /\ resp' = ErrorResponse(403, "Only admin can delete!")
            /\ UNCHANGED << layers, files, order_file >>
       ELSE LET order == load_saved_order(order_file)
            IN  /\ order_file' =
                       IF In(layer_name, order)
                       THEN save_order(order_file, Without(order, layer_name), io).file
                       ELSE order_file
                /\ IF HasKey(layers, layer_name)
                   THEN /\ files' = RemoveFile(files, Get(layers, layer_name).zip_path)
                        /\ layers' = DictPop(layers, layer_name)
                        /\ resp' = Response("delete", 200, "Deleted", <<>>, <<>>, <<>>, <<>>)
                   ELSE /\ resp' = ErrorResponse(404, "Layer not found")
                        /\ UNCHANGED << layers, files >>

delete_layer(admin, layer_name, io) ==
    /\ phase = "idle"
    /\ phase' = "done"
    /\ req' = [Request("delete", admin, <<>>, layer_name, NotAList) EXCEPT !.io = io]
    /\ live' = IF admin THEN live \ {layer_name} ELSE live
    /\ UNCHANGED << threads, persisted >>
    /\ IF ~ admin
       THEN /\ resp' = ErrorResponse(403, "Only admin can delete!")
            /\ UNCHANGED << layers, files, order_file >>
       ELSE IF HasKey(layers, layer_name)
       THEN LET zip_path == Get(layers, layer_name).zip_path
                order == load_saved_order(order_file)
            IN  /\ files' = RemoveFile(files, zip_path)
                /\ layers' = DictPop(layers, layer_name)
                /\ order_file' =
                       IF In(layer_name, order)
                       THEN save_order(order_file, Without(order, layer_name), io).file
                       ELSE order_file
                /\ resp' = Response("delete", 200, "Deleted", <<>>, <<>>, <<>>, <<>>)
       ELSE /\ resp' = ErrorResponse(404, "Layer not found")
            /\ UNCHANGED << layers, files, order_file >>

(***************************************************************************)
(* get_layers.                                                             *)
(***************************************************************************)
\* for n in saved_order: if n in present and n not in ordered: ordered.append(n)
RECURSIVE KeepSaved(_, _, _, _)
KeepSaved(saved_order, present, ordered, i) ==
    IF i > Len(saved_order) THEN ordered
    ELSE LET n == saved_order[i]
         IN  KeepSaved(saved_order, present,
                       IF In(n, present) /\ ~ In(n, ordered)
                       THEN Append(ordered, n) ELSE ordered,
                       i + 1)

\* the list `ordered` of get_layers: the saved names that are present, then,
\* for n in sorted(present), those not yet in it
OrderedNames_Unsorted(saved_order, present) ==
    AppendMissing(KeepSaved(saved_order, present, <<>>, 1), present, 1)

OrderedNames(saved_order, present) ==
    AppendMissing(KeepSaved(saved_order, present, <<>>, 1), Sorted(present), 1)

(***************************************************************************)
(* The bounds of get_layers.  A coordinate is a number or the float nan.   *)
(***************************************************************************)
Num(v) == [nan |-> FALSE, v |-> v]
NaN == [nan |-> TRUE, v |-> 0]

\* gdf.total_bounds of a layer: [minx, miny, maxx, maxy]
Rect(minx, miny, maxx, maxy) ==
    [raises |-> FALSE, b |-> << Num(minx), Num(miny), Num(maxx), Num(maxy) >>]

\* what from_features(...).total_bounds gives for the geometries an archive
\* can hold: the extent of its features; four nan when no feature has a
\* geometry (total_bounds of an empty or all-null column raises nothing);
\* an exception for a collection from_features cannot read
Geometries ==
    << Rect(1, 2, 3, 5),
       Rect(0, 3, 2, 4),
       [raises |-> FALSE, b |-> << NaN, NaN, NaN, NaN >>],
       [raises |-> TRUE, b |-> <<>>] >>

total_bounds(geojson) ==
    IF geojson \in DOMAIN Geometries THEN Geometries[geojson]
    ELSE [raises |-> TRUE, b |-> <<>>]

\* x < y on floats: every comparison with nan is false
FloatLess(x, y) == ~ x.nan /\ ~ y.nan /\ x.v < y.v

\* min(...) and max(...) of Python: the first item is kept until a later one
\* compares smaller, respectively greater
RECURSIVE PyMin(_, _, _)
PyMin(xs, i, cur) ==
    IF i > Len(xs) THEN cur
    ELSE PyMin(xs, i + 1, IF FloatLess(xs[i], cur) THEN xs[i] ELSE cur)

RECURSIVE PyMax(_, _, _)
PyMax(xs, i, cur) ==
    IF i > Len(xs) THEN cur
    ELSE PyMax(xs, i + 1, IF FloatLess(cur, xs[i]) THEN xs[i] ELSE cur)

\* lines 199-205: the total_bounds of the listed layers that raise nothing
RECURSIVE AllBounds(_, _)
AllBounds(ordered_layers, i) ==
    IF i > Len(ordered_layers) THEN <<>>
    ELSE LET tb == total_bounds(ordered_layers[i].geojson)
         IN  (IF tb.raises THEN <<>> ELSE << tb.b >>)
             \o AllBounds(ordered_layers, i + 1)

\* lines 197-212: final_bounds; <<>> stands for None
FinalBounds(ordered_layers) ==
    LET all_bounds == AllBounds(ordered_layers, 1)
        col(k) == [i \in 1..Len(all_bounds) |-> all_bounds[i][k]]
    IN  IF all_bounds = <<>> THEN <<>>
        ELSE << << PyMin(col(2), 2, col(2)[1]), PyMin(col(1), 2, col(1)[1]) >>,
                << PyMax(col(4), 2, col(4)[1]), PyMax(col(3), 2, col(3)[1]) >> >>

get_layers ==
    /\ phase = "idle"
    /\ phase' = "done"
    /\ req' = Request("layers", FALSE, <<>>, <<>>, NotAList)
    /\ LET present == Keys(layers)
           ordered == OrderedNames(load_saved_order(order_file), present)
           ordered_layers == [i \in 1..Len(ordered) |-> Get(layers, ordered[i])]
       IN  resp' = [Response("layers", 200, "", <<>>, <<>>, ordered, ordered_layers)
                       EXCEPT !.bounds = FinalBounds(ordered_layers)]
    /\ UNCHANGED << layers, files, order_file, live, threads, persisted >>

(***************************************************************************)
(* set_order.                                                              *)
(***************************************************************************)
\* the "order" value of the request's JSON body: a list of entries or not
OrderPayloads ==
    { [isList |-> TRUE, items |-> s] : s \in SeqsUpTo(OrderEntries, MaxReq) }
      \cup { NotAList }

\* cleaned = [n for n in new_order if isinstance(n, str) and n in present]
RECURSIVE Cleaned(_, _, _)
Cleaned(new_order, present, i) ==
    IF i > Len(new_order) THEN <<>>
    ELSE (IF new_order[i].isStr /\ In(new_order[i].val, present)
          THEN <<new_order[i].val>> ELSE <<>>)
         \o Cleaned(new_order, present, i + 1)

set_order(admin, payload, io) ==
    /\ phase = "idle"
    /\ phase' = "done"
    /\ req' = [Request("set_order", admin, <<>>, <<>>, payload) EXCEPT !.io = io]
    /\ IF ~ admin
       THEN /\ resp' = ErrorResponse(403, "Only admin can set order")
            /\ UNCHANGED order_file
       ELSE IF ~ payload.isList
       THEN /\ resp' = ErrorResponse(400, "Order must be a list")
            /\ UNCHANGED order_file
       ELSE LET present == Keys(layers)
                cleaned == AppendMissing(Cleaned(payload.items, present, 1), present, 1)
                saved == save_order(order_file, cleaned, io)
            IN  /\ order_file' = saved.file
                /\ resp' = IF saved.ok
                           THEN Response("set_order", 200, "Order saved",
                                         <<>>, <<>>, cleaned, <<>>)
                           ELSE ErrorResponse(500, "Failed to save order")
    /\ UNCHANGED << layers, files, live, threads, persisted >>

\* the response has been sent, or the startup code has run to its end, and
\* the next request is taken
Reply ==
    /\ phase = "done"
    /\ phase' = "idle"
    /\ req' = NoRequest
    /\ resp' = NoResponse
    /\ UNCHANGED << layers, files, order_file, live, threads, persisted >>

(***************************************************************************)
(* Process start: the module-level code.                                   *)
(***************************************************************************)
\* what requests.get(url) gives: a failure, or the bytes of the archive
DownloadOutcomes ==
    { [ok |-> FALSE, content |-> [kind |-> "corrupt", geo |-> 0]] }
      \cup { [ok |-> TRUE, content |-> c] : c \in ValidContents }

\* zip_path = os.path.join(UPLOAD_FOLDER, f"{layer_name}.zip")
BootPath(layer_name) == PathJoin(UPLOAD_FOLDER, layer_name \o DotZip)

\* load_github_shapefiles(): the loop over GITHUB_SHAPEFILES, from source i on
RECURSIVE GithubLoop(_, _, _)
GithubLoop_StopsAtFailure(st, download, i) ==
    IF i > Len(GITHUB_SHAPEFILES) THEN st
    ELSE LET layer_name == GITHUB_SHAPEFILES[i]
             zip_path == BootPath(layer_name)
         IN  IF zip_path \notin DOMAIN st.files /\ ~ download[layer_name].ok
             THEN st
             ELSE LET fs == IF zip_path \in DOMAIN st.files THEN st.files
                            ELSE SaveFile(st.files, zip_path, download[layer_name].content)
                      r == load_zip_into_layers(st.layers, fs, zip_path)
                  IN  GithubLoop([layers |-> r.layers, files |-> fs], download, i + 1)

GithubLoop(st, download, i) ==
    IF i > Len(GITHUB_SHAPEFILES) THEN st
    ELSE LET layer_name == GITHUB_SHAPEFILES[i]
             zip_path == BootPath(layer_name)
         IN  IF zip_path \notin DOMAIN st.files /\ ~ download[layer_name].ok
             THEN GithubLoop(st, download, i + 1)
             ELSE LET fs == IF zip_path \in DOMAIN st.files THEN st.files
                            ELSE SaveFile(st.files, zip_path, download[layer_name].content)
                      r == load_zip_into_layers(st.layers, fs, zip_path)
                  IN  GithubLoop([layers |-> r.layers, files |-> fs], download, i + 1)

load_github_shapefiles(d, fs, download) ==
    GithubLoop([layers |-> d, files |-> fs], download, 1)

\* the names the sources register at start, by the archives' own content
BootNames(fs, download) ==
    { n \in Range(GITHUB_SHAPEFILES) :
        IF BootPath(n) \in DOMAIN fs THEN fs[BootPath(n)] \in ValidContents
        ELSE download[n].ok /\ download[n].content \in ValidContents }

\* lines 25-31, load_github_shapefiles(), and lines 315-319
Startup(download, io) ==
    /\ phase = "boot"
    /\ LET created == IF order_file.exists THEN order_file
                      ELSE save_order(order_file, DEFAULT_LAYER_ORDER, io).file
           st == load_github_shapefiles(layers, files, download)
           order_now == AppendMissing(load_saved_order(created), Keys(st.layers), 1)
       IN  /\ layers' = st.layers
           /\ files' = st.files
           /\ order_file' = save_order(created, order_now, io).file
    /\ live' = BootNames(files, download)
    /\ phase' = "done"
    /\ req' = Request("startup", FALSE,
                      [i \in 1..Len(GITHUB_SHAPEFILES) |-> download[GITHUB_SHAPEFILES[i]]],
                      <<>>, NotAList)
    /\ UNCHANGED << resp, threads, persisted >>

\* the process ends and is started again: the module is executed anew, so
\* line 40 makes `layers` empty; uploads/ and the order file are on disk
Restart_KeepsLayers ==
    /\ phase = "idle"
    /\ phase' = "boot"
    /\ UNCHANGED << layers, live, files, order_file, req, resp, threads, persisted >>

Restart ==
    /\ phase = "idle"
    /\ phase' = "boot"
    /\ layers' = <<>>
    /\ live' = {}
    /\ UNCHANGED << files, order_file, req, resp, threads, persisted >>

(***************************************************************************)
(* The states a process can start in.                                      *)
(***************************************************************************)
\* names an order file left by an earlier run of the process may hold
InitNames == { P_Location, A }

\* texts of an order file that json.load rejects or that hold no list
MalformedTexts == { <<>>, <<"[">>, <<"{", "}">> }

InitialOrderFiles ==
    { NoFile }
      \cup { [exists |-> TRUE, text |-> JsonDump(s)] : s \in SeqsUpTo(InitNames, MaxInitLen) }
      \cup { [exists |-> TRUE, text |-> t] : t \in MalformedTexts }

\* the archives of the bootstrap sources already in uploads/ at start
BootPaths == { BootPath(n) : n \in Range(GITHUB_SHAPEFILES) }

InitialFiles ==
    UNION { [ps -> ValidContents \cup { [kind |-> "corrupt", geo |-> 0] }] :
              ps \in SUBSET BootPaths }

Init ==
    /\ phase = "boot"
    /\ layers = <<>>
    /\ files \in InitialFiles
    /\ order_file \in InitialOrderFiles
    /\ req = NoRequest
    /\ resp = NoResponse
    /\ live = {}
    /\ threads = [t \in Threads |-> IdleThread(0)]
    /\ persisted = {}

Next ==
    \/ \E download \in [Range(GITHUB_SHAPEFILES) -> DownloadOutcomes] :
           Startup(download, "ok")
    \/ \E admin \in BOOLEAN :
         \E batch \in (IF admin THEN Batches ELSE { <<>> }) :
           upload_shapefiles(admin, batch, "ok")
    \/ \E admin \in BOOLEAN :
         \E layer_name \in (IF admin THEN DeleteNames ELSE { Z }) :
           delete_layer(admin, layer_name, "ok")
    \/ get_layers
    \/ \E admin \in BOOLEAN :
         \E payload \in (IF admin THEN OrderPayloads ELSE { NotAList }) :
           set_order(admin, payload, "ok")
    \/ Reply
    \/ Restart

Spec == Init /\ [][Next]_vars

(***************************************************************************)
(* The same requests with a file system that may refuse a write of the     *)
(* order file: open() or the write raises, save_order returns False.       *)
(***************************************************************************)
NextIO ==
    \/ \E download \in [Range(GITHUB_SHAPEFILES) -> DownloadOutcomes] :
         \E io \in IOOutcomes : Startup(download, io)
    \/ \E admin \in BOOLEAN :
         \E batch \in (IF admin THEN Batches ELSE { <<>> }) :
           \E io \in IOOutcomes : upload_shapefiles(admin, batch, io)
    \/ \E admin \in BOOLEAN :
         \E layer_name \in (IF admin THEN DeleteNames ELSE { Z }) :
           \E io \in IOOutcomes : delete_layer(admin, layer_name, io)
    \/ get_layers
    \/ \E admin \in BOOLEAN :
         \E payload \in (IF admin THEN OrderPayloads ELSE { NotAList }) :
           \E io \in IOOutcomes : set_order(admin, payload, io)
    \/ Reply

SpecIO == Init /\ [][NextIO]_vars

(***************************************************************************)
(* List requests over every Registry and every order file: the persisted   *)
(* order and the Registry drift apart when a write of the order file fails *)
(* or requests interleave, so get_layers is also tried on each pair of     *)
(* them, not only on those a run of sequential requests leaves behind.     *)
(***************************************************************************)
\* the lists of at most n distinct names
DistinctSeqs(S, n) ==
    { s \in SeqsUpTo(S, n) : \A i, j \in 1..Len(s) : i # j => s[i] # s[j] }

\* the dict after valid archives <name>.zip were ingested in the order given
RegistryOf(names) ==
    [i \in 1..Len(names) |->
        [name |-> names[i], geojson |-> 1, zip_path |-> BootPath(names[i])]]

\* the lists an order file may hold
SavedLists == SeqsUpTo(Names \cup { Z }, MaxSavedLen)

AnyOrderFiles ==
    { NoFile }
      \cup { [exists |-> TRUE, text |-> JsonDump(s)] : s \in SavedLists }
      \cup { [exists |-> TRUE, text |-> t] : t \in MalformedTexts }

InitList ==
    /\ phase = "idle"
    /\ \E names \in DistinctSeqs(Names, MaxPresent) :
          /\ layers = RegistryOf(names)
          /\ files = [p \in { BootPath(n) : n \in Range(names) } |->
                         [kind |-> "shp", geo |-> 1]]
          /\ live = Range(names)
    /\ order_file \in AnyOrderFiles
    /\ req = NoRequest
    /\ resp = NoResponse
    /\ threads = [t \in Threads |-> IdleThread(0)]
    /\ persisted = {}

NextList == get_layers \/ Reply

SpecList == InitList /\ [][NextList]_vars

(***************************************************************************)
(* List requests over Registries whose layers hold every kind of geometry. *)
(***************************************************************************)
InitBounds ==
    /\ phase = "idle"
    /\ \E names \in DistinctSeqs(Names, MaxPresent) :
        \E geos \in [1..Len(names) -> DOMAIN Geometries] :
          /\ layers = [i \in 1..Len(names) |->
                          [name |-> names[i], geojson |-> geos[i],
                           zip_path |-> BootPath(names[i])]]
          /\ files = [p \in { BootPath(n) : n \in Range(names) } |->
                         [kind |-> "shp",
                          geo |-> geos[CHOOSE i \in 1..Len(names) : BootPath(names[i]) = p]]]
          /\ live = Range(names)
          /\ order_file = [exists |-> TRUE, text |-> JsonDump(names)]
    /\ req = NoRequest
    /\ resp = NoResponse
    /\ threads = [t \in Threads |-> IdleThread(0)]
    /\ persisted = {}

NextBounds == get_layers \/ Reply

SpecBounds == InitBounds /\ [][NextBounds]_vars

(***************************************************************************)
(* Concurrent requests.  app.run() serves every request on a thread of its *)
(* own, and the handlers take no lock: the threads share `layers` and the  *)
(* order file, and a step of one of them is one access to either.          *)
(***************************************************************************)
\* the layers registered when the concurrent requests arrive
ConcNames == << Taluka, P_Location, A >>

\* the lists the order file may hold then: each names every layer
ConcInitialOrders == { << P_Location, Taluka, A >>, << A, P_Location, Taluka >> }

InitConc ==
    /\ phase = "idle"
    /\ layers = RegistryOf(ConcNames)
    /\ files = [p \in { BootPath(n) : n \in Range(ConcNames) } |->
                   [kind |-> "shp", geo |-> 1]]
    /\ live = Range(ConcNames)
    /\ \E s \in ConcInitialOrders :
          /\ order_file = [exists |-> TRUE, text |-> JsonDump(s)]
          /\ persisted = { s }
    /\ req = NoRequest
    /\ resp = NoResponse
    /\ threads = [t \in Threads |-> IdleThread(0)]

\* the thread has its response
Finished(th, op, response) == [th EXCEPT !.pc = "done", !.op = op, !.resp = response]

\* an exception the handler does not catch: Flask answers 500
Uncaught == ErrorResponse(500, "Internal Server Error")

\* set_order, lines 227-241: up to the call of save_order(cleaned)
set_order_prepare(t, admin, payload) ==
    /\ threads[t].pc = "idle"
    /\ threads[t].served < MaxServed
    /\ LET present == Keys(layers)
           cleaned == AppendMissing(Cleaned(payload.items, present, 1), present, 1)
       IN  threads' = [threads EXCEPT ![t] =
               IF ~ admin
               THEN Finished(@, "set_order", ErrorResponse(403, "Only admin can set order"))
               ELSE IF ~ payload.isList
               THEN Finished(@, "set_order", ErrorResponse(400, "Order must be a list"))
               ELSE [@ EXCEPT !.pc = "save_open", !.op = "set_order",
                              !.order = cleaned]]
    /\ UNCHANGED << phase, layers, files, order_file, req, resp, live, persisted >>

\* save_order, line 60: open(ORDER_FILE, "wt") truncates the file
save_order_open(t) ==
    /\ threads[t].pc = "save_open"
    /\ order_file' = OpenTruncate(order_file)
    /\ persisted' = persisted \cup { threads[t].order }
    /\ threads' = [threads EXCEPT ![t].pc = "save_write"]
    /\ UNCHANGED << phase, layers, files, req, resp, live >>

\* save_order, lines 61-62: json.dump fills the buffer and leaving the with
\* block writes it out from the start of the file; then the handler answers
save_order_write(t) ==
    /\ threads[t].pc = "save_write"
    /\ order_file' = WriteAtStart(order_file, JsonDump(threads[t].order))
    /\ threads' = [threads EXCEPT ![t] =
           Finished(@, @.op,
                    IF @.op = "set_order"
                    THEN Response("set_order", 200, "Order saved",
                                  <<>>, <<>>, @.order, <<>>)
                    ELSE IF @.op = "upload"
                    THEN Response("upload", 200, "", @.uploaded, @.failed, <<>>, <<>>)
                    ELSE Response("delete", 200, "Deleted", <<>>, <<>>, <<>>, <<>>))]
    /\ UNCHANGED << phase, layers, files, req, resp, live, persisted >>

\* the batches of the concurrent upload requests
ConcBatches == Batches

\* after file i of the batch: the next file, or the code behind the loop
AfterFile(th) ==
    [th EXCEPT !.i = @ + 1, !.zip_path = <<>>, !.geo = 0,
               !.pc = IF th.i + 1 > Len(th.batch) THEN "up_load" ELSE "up_file"]

\* upload_shapefiles, lines 116-124
upload_prepare(t, admin, batch) ==
    /\ threads[t].pc = "idle"
    /\ threads[t].served < MaxServed
    /\ threads' = [threads EXCEPT ![t] =
           IF ~ admin
           THEN Finished(@, "upload", ErrorResponse(403, "Only admin can upload!"))
           ELSE IF batch = <<>>
           THEN Finished(@, "upload", ErrorResponse(400, "No files received!"))
           ELSE [@ EXCEPT !.pc = "up_file", !.op = "upload", !.batch = batch, !.i = 1]]
    /\ UNCHANGED << phase, layers, files, order_file, req, resp, live, persisted >>

\* upload_shapefiles, lines 127-132: the name test and file.save(zip_path)
upload_save(t) ==
    /\ threads[t].pc = "up_file"
    /\ LET file == threads[t].batch[threads[t].i]
           zip_path == PathJoin(UPLOAD_FOLDER, file.filename)
       IN  IF ~ EndsWith(Lower(file.filename), DotZip)
           THEN /\ threads' = [threads EXCEPT ![t] =
                       AfterFile([@ EXCEPT !.failed = Append(@, file.filename)])]
                /\ UNCHANGED files
           ELSE /\ files' = SaveFile(files, zip_path, file.content)
                /\ threads' = [threads EXCEPT ![t] =
                       [@ EXCEPT !.pc = "up_read", !.zip_path = zip_path]]
    /\ UNCHANGED << phase, layers, order_file, req, resp, live, persisted >>

\* load_zip_into_layers, lines 254-270: the archive as it is on disk now is
\* extracted and read; lines 136-137 when that fails
upload_read(t) ==
    /\ threads[t].pc = "up_read"
    /\ threads' = [threads EXCEPT ![t] =
           IF Ingestible(files, @.zip_path)
           THEN [@ EXCEPT !.pc = "up_assign", !.geo = files[threads[t].zip_path].geo]
           ELSE AfterFile([@ EXCEPT !.failed = Append(@, threads[t].batch[threads[t].i].filename)])]
    /\ UNCHANGED << phase, layers, files, order_file, req, resp, live, persisted >>

\* load_zip_into_layers, lines 271-280, and line 135
upload_assign(t) ==
    /\ threads[t].pc = "up_assign"
    /\ layers' = DictSet(layers, [name |-> LayerNameOf(threads[t].zip_path),
                                  geojson |-> threads[t].geo,
                                  zip_path |-> threads[t].zip_path])
    /\ live' = live \cup { LayerNameOf(threads[t].zip_path) }
    /\ threads' = [threads EXCEPT ![t] =
           AfterFile([@ EXCEPT !.uploaded =
                         Append(@, SplitExtRoot(threads[t].batch[threads[t].i].filename))])]
    /\ UNCHANGED << phase, files, order_file, req, resp, persisted >>

\* upload_shapefiles, lines 139-140: the order is loaded and the iteration
\* over layers.keys() begins; the iterator remembers the size of the dict
upload_load(t) ==
    /\ threads[t].pc = "up_load"
    /\ threads' = [threads EXCEPT ![t] =
           [@ EXCEPT !.pc = "up_append", !.loaded = TRUE,
                     !.saved_order = load_saved_order(order_file),
                     !.i = Len(layers)]]
    /\ UNCHANGED << phase, layers, files, order_file, req, resp, live, persisted >>

\* upload_shapefiles, lines 140-142: the iteration raises RuntimeError when
\* the dict has changed size since it began
upload_append(t) ==
    /\ threads[t].pc = "up_append"
    /\ threads' = [threads EXCEPT ![t] =
           IF Len(layers) # @.i
           THEN Finished(@, "upload", Uncaught)
           ELSE [@ EXCEPT !.pc = "save_open",
                          !.order = AppendMissing(threads[t].saved_order, Keys(layers), 1)]]
    /\ UNCHANGED << phase, layers, files, order_file, req, resp, live, persisted >>

\* delete_layer, lines 153-157: the membership test and the read of zip_path
delete_layer_lookup(t, admin, layer_name) ==
    /\ threads[t].pc = "idle"
    /\ threads[t].served < MaxServed
    /\ threads' = [threads EXCEPT ![t] =
           IF ~ admin
           THEN Finished(@, "delete", ErrorResponse(403, "Only admin can delete!"))
           ELSE IF ~ HasKey(layers, layer_name)
           THEN Finished(@, "delete", ErrorResponse(404, "Layer not found"))
           ELSE [@ EXCEPT !.pc = "del_remove", !.op = "delete",
                          !.name = layer_name,
                          !.zip_path = Get(layers, layer_name).zip_path]]
    /\ UNCHANGED << phase, layers, files, order_file, req, resp, live, persisted >>

\* delete_layer, lines 158-162
delete_layer_remove(t) ==
    /\ threads[t].pc = "del_remove"
    /\ files' = RemoveFile(files, threads[t].zip_path)
    /\ threads' = [threads EXCEPT ![t].pc = "del_pop"]
    /\ UNCHANGED << phase, layers, order_file, req, resp, live, persisted >>

\* delete_layer, line 164: layers.pop raises KeyError when another thread
\* has popped the name in between
delete_layer_pop(t) ==
    /\ threads[t].pc = "del_pop"
    /\ IF HasKey(layers, threads[t].name)
       THEN /\ layers' = DictPop(layers, threads[t].name)
            /\ live' = live \ { threads[t].name }
            /\ threads' = [threads EXCEPT ![t].pc = "del_load"]
       ELSE /\ threads' = [threads EXCEPT ![t] = Finished(@, "delete", Uncaught)]
            /\ UNCHANGED << layers, live >>
    /\ UNCHANGED << phase, files, order_file, req, resp, persisted >>

\* delete_layer, lines 166-168: the order is loaded and the name filtered out
delete_layer_load(t) ==
    /\ threads[t].pc = "del_load"
    /\ LET order == load_saved_order(order_file)
       IN  threads' = [threads EXCEPT ![t] =
               IF In(@.name, order)
               THEN [@ EXCEPT !.pc = "save_open", !.loaded = TRUE,
                              !.saved_order = order,
                              !.order = Without(order, threads[t].name)]
               ELSE [Finished(@, "delete",
                              Response("delete", 200, "Deleted", <<>>, <<>>, <<>>, <<>>))
                       EXCEPT !.loaded = TRUE, !.saved_order = order]]
    /\ UNCHANGED << phase, layers, files, order_file, req, resp, live, persisted >>

\* get_layers, line 183
get_layers_load(t) ==
    /\ threads[t].pc = "idle"
    /\ threads[t].served < MaxServed
    /\ threads' = [threads EXCEPT ![t] =
           [@ EXCEPT !.pc = "list_present", !.op = "layers", !.loaded = TRUE,
                     !.saved_order = load_saved_order(order_file)]]
    /\ UNCHANGED << phase, layers, files, order_file, req, resp, live, persisted >>

\* get_layers, lines 185-193
get_layers_present(t) ==
    /\ threads[t].pc = "list_present"
    /\ threads' = [threads EXCEPT ![t] =
           [@ EXCEPT !.pc = "list_lookup",
                     !.order = OrderedNames(threads[t].saved_order, Keys(layers))]]
    /\ UNCHANGED << phase, layers, files, order_file, req, resp, live, persisted >>

\* get_layers, lines 195-219: layers[name] raises KeyError for a name that
\* another thread has popped since `present` was taken
get_layers_lookup(t) ==
    /\ threads[t].pc = "list_lookup"
    /\ LET ordered == threads[t].order
       IN  threads' = [threads EXCEPT ![t] =
               IF \A i \in 1..Len(ordered) : HasKey(layers, ordered[i])
               THEN LET ordered_layers ==
                            [i \in 1..Len(ordered) |-> Get(layers, ordered[i])]
                    IN  Finished(@, "layers",
                                 [Response("layers", 200, "", <<>>, <<>>, ordered,
                                           ordered_layers)
                                    EXCEPT !.bounds = FinalBounds(ordered_layers)])
               ELSE Finished(@, "layers", Uncaught)]
    /\ UNCHANGED << phase, layers, files, order_file, req, resp, live, persisted >>

\* the response is sent and the thread is free for its next request
thread_reply(t) ==
    /\ threads[t].pc = "done"
    /\ threads' = [threads EXCEPT ![t] = IdleThread(@.served + 1)]
    /\ UNCHANGED << phase, layers, files, order_file, req, resp, live, persisted >>

NextConc ==
    \E t \in Threads :
        \/ \E admin \in BOOLEAN :
             \E payload \in (IF admin THEN OrderPayloads ELSE { NotAList }) :
               set_order_prepare(t, admin, payload)
        \/ save_order_open(t)
        \/ save_order_write(t)
        \/ \E admin \in BOOLEAN :
             \E batch \in (IF admin THEN ConcBatches ELSE { <<>> }) :
               upload_prepare(t, admin, batch)
        \/ upload_save(t)
        \/ upload_read(t)
        \/ upload_assign(t)
        \/ upload_load(t)
        \/ upload_append(t)
        \/ \E admin \in BOOLEAN :
             \E layer_name \in (IF admin THEN DeleteNames ELSE { Z }) :
               delete_layer_lookup(t, admin, layer_name)
        \/ delete_layer_remove(t)
        \/ delete_layer_pop(t)
        \/ delete_layer_load(t)
        \/ get_layers_load(t)
        \/ get_layers_present(t)
        \/ get_layers_lookup(t)
        \/ thread_reply(t)

SpecConc == InitConc /\ [][NextConc]_vars

(***************************************************************************)
(* Properties.                                                             *)
(***************************************************************************)
\* a request of the given handler has just been answered
Answered(op) == phase = "done" /\ req.op = op

\* this step is the handler `op` running for an admin session
AdminStep(op) == phase = "idle" /\ phase' = "done" /\ req'.op = op /\ req'.admin

\* the set of Registry keys
KeySet(d) == Range(Keys(d))

\* what a List request would return as `order` in the current state
ListedOrder == OrderedNames(load_saved_order(order_file), Keys(layers))

\* what it would return after this step
ListedOrderAfter == OrderedNames(load_saved_order(order_file'), Keys(layers'))

\* s is the beginning of t
IsPrefix(s, t) == Len(s) <= Len(t) /\ SubSeq(t, 1, Len(s)) = s

\* number of positions of list that hold x
Count(x, list) == Cardinality({ i \in 1..Len(list) : list[i] = x })

\* C1: after any sequence of Upload and Delete requests from the
\* post-bootstrap state the Registry's keys are exactly the live names: those
\* whose archive ingested successfully (by the archive's own content, under
\* the name derived from its base filename) and that were not deleted since;
\* no key is held twice.
C1_RegistryKeysAreLive ==
    /\ KeySet(layers) = live
    /\ Len(layers) = Cardinality(live)

\* C1 witness: a Delete of A has been answered "Deleted" while B, uploaded
\* before, is still live, and a failed upload has left its archive behind.
C1_Witness ==
    /\ Answered("delete") /\ resp.code = 200 /\ req.name = A
    /\ B \in live
    /\ \E p \in DOMAIN files : files[p].kind # "shp"

\* C2: the order Set order returns and persists holds no name that is absent
\* from the Registry and holds every Registry name exactly once, for every
\* requested list (repeated names included).
C2_SetOrderIsPermutation ==
    (Answered("set_order") /\ resp.kind = "set_order") =>
        /\ load_saved_order(order_file) = resp.order
        /\ \A i \in 1..Len(resp.order) : HasKey(layers, resp.order[i])
        /\ \A n \in KeySet(layers) : Count(n, resp.order) = 1

C6_DeleteUnknownChangesNothing ==
    [][ (AdminStep("delete") /\ ~ HasKey(layers, req'.name)) =>
            /\ resp'.code = 404 /\ resp'.msg = "Layer not found"
            /\ layers' = layers
            /\ order_file' = order_file
            /\ files' = files
      ]_vars

\* C6 witness: a Delete of a name that is in the persisted order but is no
\* Registry key has been answered 404.
C6_Witness ==
    /\ Answered("delete") /\ req.admin /\ resp.code = 404
    /\ ~ HasKey(layers, req.name)
    /\ In(req.name, load_saved_order(order_file))

\* the files of a batch that pass (want = TRUE) or fail, in batch order
RECURSIVE FilesWhere(_, _, _)
FilesWhere(batch, want, i) ==
    IF i > Len(batch) THEN <<>>
    ELSE (IF Ingests(batch[i]) = want THEN <<batch[i].filename>> ELSE <<>>)
         \o FilesWhere(batch, want, i + 1)

\* C7: for an Upload of N files of which M fail (name not ending in .zip, no
\* shapefile member, unreadable archive) `uploaded` has N-M entries and
\* `failed` has M; each file is in exactly one of the lists, by its own name
\* and content alone, whatever the other files of the batch are.
C7_BatchOutcomesAreIndependent ==
    (Answered("upload") /\ req.admin /\ req.batch # <<>>) =>
        LET passed == FilesWhere(req.batch, TRUE, 1)
            fails == FilesWhere(req.batch, FALSE, 1)
        IN  /\ resp.kind = "upload"
            /\ resp.failed = fails
            /\ resp.uploaded = [i \in 1..Len(passed) |-> SplitExtRoot(passed[i])]
            /\ Len(resp.uploaded) = Len(req.batch) - Len(fails)
            /\ Len(resp.uploaded) + Len(resp.failed) = Len(req.batch)

\* C7 witness: a batch whose first file fails and whose second ingests.
C7_Witness ==
    /\ Answered("upload") /\ Len(req.batch) = 2
    /\ req.batch[1].content.kind = "noshp"
    /\ resp.failed = << req.batch[1].filename >>
    /\ resp.uploaded = << B >>
    /\ HasKey(layers, B)

\* the batch [A.zip (valid), B.txt (not a zip)]
IsBatchAB(batch) ==
    /\ Len(batch) = 2
    /\ batch[1].filename = A_zip /\ batch[1].content \in ValidContents
    /\ batch[2].filename = B_txt

FirstIndex(x, list) == CHOOSE i \in 1..Len(list) : list[i] = x /\ \A j \in 1..(i-1) : list[j] # x

\* C3: the order of a List response is reconcile(persisted order, Registry
\* names): first the persisted names that are Registry keys, each once, in
\* the order of their first occurrence; then the other Registry names in
\* lexicographic order; so every Registry name exactly once and nothing else.
C3_ListIsReconcile ==
    Answered("layers") =>
        LET saved == load_saved_order(order_file)
            o == resp.order
            k == Cardinality(Range(saved) \cap KeySet(layers))
        IN  /\ Range(o) = KeySet(layers)
            /\ Len(o) = Cardinality(KeySet(layers))
            /\ \A i \in 1..Len(o) : In(o[i], saved) <=> i <= k
            /\ \A i, j \in 1..k :
                   i < j => FirstIndex(o[i], saved) < FirstIndex(o[j], saved)
            /\ \A i, j \in (k+1)..Len(o) : i < j => StrLess(o[i], o[j])
            /\ [i \in 1..Len(o) |-> resp.layers[i].name] = o

\* C3 witness: a List over a persisted order with a repeated name, a name
\* that is no key, and two keys it lacks that are registered in the order
\* opposite to the lexicographic one.
C3_Witness ==
    /\ Answered("layers")
    /\ load_saved_order(order_file) = << A, Z, A >>
    /\ Keys(layers) = << Taluka, A, P_Location >>
    /\ resp.order = << A, P_Location, Taluka >>

\* C4: reconcile is idempotent: reconciling the order a List returned against
\* the same Registry names gives that order again.
C4_ReconcileIdempotent ==
    Answered("layers") =>
        OrderedNames(resp.order, Keys(layers)) = resp.order

\* C4 witness: a List whose order differs from the persisted one (a name
\* dropped, a repeat removed, a name appended).
C4_Witness ==
    /\ Answered("layers")
    /\ load_saved_order(order_file) = << Taluka, Z, Taluka >>
    /\ resp.order = << Taluka, A >>

\* C9: load() returns the list the order file holds when the file exists and
\* its text is the JSON of a list (the list of SavedLists whose JSON text the
\* file has), and the default seed [P_Location, Taluka] when the file is
\* missing or its text is no JSON list; with no file and a Registry of exactly
\* Taluka and P_Location the listed order is [P_Location, Taluka].
C9_LoadFallsBackToDefault ==
    /\ (order_file.exists /\ order_file.text \notin MalformedTexts) =>
           LET loaded == load_saved_order(order_file)
           IN  /\ Len(loaded) <= MaxSavedLen
               /\ Range(loaded) \subseteq Names \cup { Z }
               /\ JsonDump(loaded) = order_file.text
    /\ (~ order_file.exists \/ order_file.text \in MalformedTexts) =>
           load_saved_order(order_file) = << P_Location, Taluka >>
    /\ ( /\ Answered("layers") /\ ~ order_file.exists
         /\ KeySet(layers) = { Taluka, P_Location } ) =>
           resp.order = << P_Location, Taluka >>

\* C9 witness: a List answered with no order file and the two bootstrap
\* layers registered in the order the bootstrap ingests them.
C9_Witness ==
    /\ Answered("layers") /\ ~ order_file.exists
    /\ Keys(layers) = << Taluka, P_Location >>
    /\ resp.order = << P_Location, Taluka >>

\* a save of some thread is between its open and its write
SaveInProgress == \E t \in Threads : threads[t].pc = "save_write"

\* the file holds the text save_order writes for one of the lists given to it
HoldsAPersistedList ==
    \E s \in persisted : order_file = [exists |-> TRUE, text |-> JsonDump(s)]

\* C10: when saves of concurrent requests interleave with each other and
\* with loads, every load returns a list that was persisted before or that a
\* save persists, never the default seed for an empty or half-written file,
\* and once all saves have completed the file holds exactly one of the saved
\* lists.
C10_OrderFileNeverCorrupt ==
    /\ \A t \in Threads : threads[t].loaded => threads[t].saved_order \in persisted
    /\ ~ SaveInProgress => HoldsAPersistedList

\* the first half alone: what loads return
C10_LoadsReturnPersistedLists ==
    \A t \in Threads : threads[t].loaded => threads[t].saved_order \in persisted

\* the second half alone: what the file holds when no save is in progress
C10_FileHoldsASavedList == ~ SaveInProgress => HoldsAPersistedList

\* this step is the startup code running
StartupStep == phase = "boot" /\ phase' = "done" /\ req'.op = "startup"

\* C13: at process start each bootstrap source is downloaded only when its
\* archive is absent (a local copy is kept as it is), a failed download
\* leaves only that source out, and every source whose archive is on disk
\* afterwards is ingested: it is a Registry key exactly when its archive is
\* a valid one, with that archive's geometry.
C13_BootstrapCacheIfAbsent ==
    [][ StartupStep =>
          \A i \in 1..Len(GITHUB_SHAPEFILES) :
             LET n == GITHUB_SHAPEFILES[i]
                 p == BootPath(n)
                 got == req'.batch[i]
             IN  /\ p \in DOMAIN files =>
                       p \in DOMAIN files' /\ files'[p] = files[p]
                 /\ (p \notin DOMAIN files /\ got.ok) =>
                       p \in DOMAIN files' /\ files'[p] = got.content
                 /\ (p \notin DOMAIN files /\ ~ got.ok) =>
                       p \notin DOMAIN files' /\ ~ HasKey(layers', n)
                 /\ p \in DOMAIN files' =>
                       /\ HasKey(layers', n) <=> files'[p] \in ValidContents
                       /\ HasKey(layers', n) =>
                             /\ Get(layers', n).geojson = files'[p].geo
                             /\ Get(layers', n).zip_path = p
      ]_vars

\* C13 witness: the download of Taluka, the first source, failed with no
\* local copy, and P_Location, the second, was downloaded and registered.
C13_Witness ==
    /\ Answered("startup")
    /\ ~ req.batch[1].ok /\ BootPath(Taluka) \notin DOMAIN files
    /\ req.batch[2].ok /\ Keys(layers) = << P_Location >>

\* C16: after an Upload or a startup that registers several names missing
\* from the persisted order, the next List shows the names of the prior order
\* first and then the new names in lexicographic order, whatever the order in
\* which their archives were ingested.
C16_NewNamesInLexicographicOrder ==
    [][ (AdminStep("upload") \/ StartupStep) =>
          LET saved == load_saved_order(order_file)
              new == { n \in KeySet(layers') \ KeySet(layers) : ~ In(n, saved) }
              after == ListedOrderAfter
          IN  \A i, j \in 1..Len(after) :
                 /\ (after[i] \in new /\ after[j] \notin new) => j < i
                 /\ (i < j /\ after[i] \in new /\ after[j] \in new) =>
                        StrLess(after[i], after[j])
      ]_vars

\* this step is the handler `op` running, for any session
HandlerStep(op) == phase = "idle" /\ phase' = "done" /\ req'.op = op

\* C17: a name of the persisted order that is no Registry key is left out of
\* every List response and stays in the stored order: List, Upload and
\* startup remove no name from it, a Delete removes none but the deleted one,
\* and the order Set order stores holds Registry keys only.
C17_AbsentNamesStayStored ==
    [][ LET before == load_saved_order(order_file)
            after == load_saved_order(order_file')
        IN  /\ HandlerStep("layers") =>
                  /\ \A n \in Range(before) :
                        ~ HasKey(layers, n) => ~ In(n, resp'.order)
                  /\ order_file' = order_file
            /\ (HandlerStep("upload") \/ StartupStep) => IsPrefix(before, after)
            /\ HandlerStep("delete") => after \in { before, Without(before, req'.name) }
            /\ (HandlerStep("set_order") /\ resp'.code = 200) =>
                  \A n \in Range(after) : HasKey(layers, n)
      ]_vars

\* C17 witness: A is in the stored order and is no Registry key, B has been
\* uploaded since, and a List has been answered without A.
C17_Witness ==
    /\ Answered("layers")
    /\ In(A, load_saved_order(order_file)) /\ ~ HasKey(layers, A)
    /\ In(B, load_saved_order(order_file)) /\ HasKey(layers, B)
    /\ ~ In(A, resp.order) /\ In(B, resp.order)

\* the names that are no bootstrap source
UploadedNames == Names \ Range(GITHUB_SHAPEFILES)

\* C18: after a restart the Registry holds exactly the bootstrap layers
\* whose archives ingest; a layer uploaded before under another name is no
\* Registry key and in no List response, while its archive file is still on
\* disk and its name still in the persisted order.
C18_UploadsVanishAtRestart ==
    [][ StartupStep =>
          /\ KeySet(layers') =
                { n \in Range(GITHUB_SHAPEFILES) :
                    /\ BootPath(n) \in DOMAIN files'
                    /\ files'[BootPath(n)] \in ValidContents }
          /\ \A n \in UploadedNames :
                /\ ~ HasKey(layers', n)
                /\ ~ In(n, ListedOrderAfter)
                /\ In(n, load_saved_order(order_file)) =>
                      In(n, load_saved_order(order_file'))
          /\ \A p \in DOMAIN files :
                p \in DOMAIN files' /\ files'[p] = files[p]
      ]_vars

\* C18 witness: A was uploaded, the process has restarted, and a List is
\* answered with the two bootstrap layers while A.zip, a valid archive, is on
\* disk and A is in the persisted order.
C18_Witness ==
    /\ Answered("layers") /\ resp.order = << P_Location, Taluka >>
    /\ PathJoin(UPLOAD_FOLDER, A_zip) \in DOMAIN files
    /\ files[PathJoin(UPLOAD_FOLDER, A_zip)] \in ValidContents
    /\ load_saved_order(order_file) = << P_Location, Taluka, A >>

\* C19: an Upload none of whose archives ingests leaves the Registry as it
\* was, and the backing archive of every layer registered before it (one
\* with the same derived name included) holds what it held.
C19_FailedUploadKeepsArchives ==
    [][ (AdminStep("upload") /\ req'.batch # <<>> /\ resp'.uploaded = <<>>) =>
          /\ layers' = layers
          /\ \A i \in 1..Len(layers) :
                layers[i].zip_path \in DOMAIN files =>
                   /\ layers[i].zip_path \in DOMAIN files'
                   /\ files'[layers[i].zip_path] = files[layers[i].zip_path]
      ]_vars

\* the request just answered called save_order and the write failed
WriteFailed ==
    /\ phase = "done" /\ req.admin /\ req.io = "fail"
    /\ \/ req.op = "upload" /\ req.batch # <<>>
       \/ req.op = "set_order" /\ req.payload.isList
       \/ /\ req.op = "delete" /\ resp.code # 404
          /\ In(req.name, load_saved_order(order_file))

\* C12: whenever the write of the order list fails, the request that
\* attempted it (Upload, Delete and Set order alike) answers with an error
\* and not with a success response.
C12_WriteFailureIsReported ==
    WriteFailed => resp.kind = "error" /\ resp.code >= 400

\* the part of C12 that is about Set order alone
C12_SetOrderReportsWriteFailure ==
    (WriteFailed /\ req.op = "set_order") => resp.kind = "error" /\ resp.code = 500

\* the rectangles of the layers of a List response that yield one: those
\* whose total_bounds raises nothing and is no nan
Rectangles(lyrs) ==
    { total_bounds(lyrs[i].geojson).b :
        i \in { j \in 1..Len(lyrs) :
                  LET tb == total_bounds(lyrs[j].geojson)
                  IN  ~ tb.raises /\ \A k \in 1..4 : ~ tb.b[k].nan } }

\* least and greatest of a non-empty set of numbers
MinOf(S) == CHOOSE x \in S : \A y \in S : x <= y
MaxOf(S) == CHOOSE x \in S : \A y \in S : x >= y

\* [[min_lat, min_lon], [max_lat, max_lon]] over a set of rectangles
Envelope(rs) ==
    << << Num(MinOf({ r[2].v : r \in rs })), Num(MinOf({ r[1].v : r \in rs })) >>,
       << Num(MaxOf({ r[4].v : r \in rs })), Num(MaxOf({ r[3].v : r \in rs })) >> >>

\* C14: the bounds of a List response is null exactly when no listed layer
\* yields a bounding rectangle; otherwise it is [[min_lat, min_lon],
\* [max_lat, max_lon]], each the least or greatest over the rectangles of the
\* layers that yield one, the others being skipped; for a single layer it is
\* that layer's extent.
C14_BoundsAreTheEnvelope ==
    Answered("layers") =>
        LET rs == Rectangles(resp.layers)
        IN  resp.bounds = IF rs = {} THEN <<>> ELSE Envelope(rs)

\* the same for responses none of whose layers is without geometry
C14_BoundsOfRectangles ==
    ( /\ Answered("layers")
      /\ \A i \in 1..Len(resp.layers) :
            LET tb == total_bounds(resp.layers[i].geojson)
            IN  tb.raises \/ ~ tb.b[1].nan ) =>
        LET rs == Rectangles(resp.layers)
        IN  resp.bounds = IF rs = {} THEN <<>> ELSE Envelope(rs)

\* C11: a List request that interleaves with concurrent Upload and Delete
\* requests completes with a normal response whose `layers` has exactly the
\* names of `order`, each with its Layer record; never a failure or a
\* missing record.
C11_ConcurrentListCompletes ==
    \A t \in Threads :
        (threads[t].pc = "done" /\ threads[t].op = "layers") =>
            LET r == threads[t].resp
            IN  /\ r.kind = "layers" /\ r.code = 200
                /\ [i \in 1..Len(r.layers) |-> r.layers[i].name] = r.order

\* thread t has been answered 200 for a request of handler op
Succeeded(t, op) ==
    threads[t].pc = "done" /\ threads[t].op = op /\ threads[t].resp.code = 200

\* C15: when a Delete of a registered name X has run concurrently with an
\* Upload of other archives or with a Set order, and both are answered, X is
\* no Registry key and not in the persisted order, and every name the Upload
\* registered is in the persisted order.
C15_NoLostOrderUpdate ==
    \A t, u \in Threads :
        ( /\ Succeeded(t, "delete")
          /\ \/ Succeeded(u, "set_order")
             \/ /\ Succeeded(u, "upload")
                /\ \A k \in 1..Len(threads[u].batch) :
                      SplitExtRoot(threads[u].batch[k].filename) # threads[t].name ) =>
            LET X == threads[t].name
                stored == load_saved_order(order_file)
            IN  /\ ~ HasKey(layers, X)
                /\ ~ In(X, stored)
                /\ \A k \in 1..Len(threads[u].uploaded) : In(threads[u].uploaded[k], stored)

\* no request is in progress on any thread
Quiescent == \A t \in Threads : threads[t].pc \in { "idle", "done" }

\* every Registry entry's zip_path names a file that is on disk
ArchivesExist == \A i \in 1..Len(layers) : layers[i].zip_path \in DOMAIN files

\* C20: in every state reached by concurrent Upload and Delete requests, seen
\* when no request is in progress, each Registry entry's zip_path names an
\* archive file that exists.
C20_RegisteredArchivesExist == Quiescent => ArchivesExist

\* the same for requests that run one at a time
C20_SequentialArchivesExist == (phase # "boot") => ArchivesExist

====
